---- MODULE Spec2Model ----
(***************************************************************************)
(* A model of etl.py: the Spark job that turns the song catalog and the    *)
(* event log into the tables songs, artists, users, time and songplays.    *)
(*                                                                         *)
(* A column value is NULL or a value.  NULL is the empty set and the value *)
(* v is the singleton {v}, so that the SQL rules (an aggregate skips NULL, *)
(* a comparison with NULL is never true, GROUP BY and DISTINCT keep NULL   *)
(* as one value) are written out where the queries use them.  Text that is *)
(* only compared or ordered (titles, names) is a number standing for its   *)
(* rank in the lexicographic order; userId, which the job casts to int, is *)
(* a sequence of characters.                                               *)
(***************************************************************************)
EXTENDS Integers, Sequences, FiniteSets

\* ------------------------------------------------------------------ bounds

\* The catalog holds at most MaxSongs records and the log at most MaxEvents.
MaxSongs == 2
MaxEvents == 2

\* ------------------------------------------------------------- SQL values

Null == {}

Val(v) == {v}

Get(x) == CHOOSE v \in x : TRUE

\* The predicate a = b of a JOIN ... ON or a WHERE: true only of two equal
\* non-NULL values.
SqlEq(a, b) == a # Null /\ b # Null /\ a = b

\* MIN with NULL taken as the least value: NULL as soon as the group holds
\* one.
SqlMinNullLeast(col) ==
    LET vals == UNION col
    IN IF vals = {} \/ Null \in col THEN Null
       ELSE Val(CHOOSE m \in vals : \A v \in vals : m <= v)

\* MIN(col) over a group: the least non-NULL value, NULL when there is none.
SqlMin(col) ==
    LET vals == UNION col
    IN IF vals = {} THEN Null
       ELSE Val(CHOOSE m \in vals : \A v \in vals : m <= v)

\* MAX(col) over a group.
SqlMax(col) ==
    LET vals == UNION col
    IN IF vals = {} THEN Null
       ELSE Val(CHOOSE m \in vals : \A v \in vals : m >= v)

Range(s) == {s[i] : i \in DOMAIN s}

SeqsUpTo(S, n) == UNION {[1..k -> S] : k \in 0..n}

\* ------------------------------------------------------------ song_data

\* The columns the two catalog queries read.
SongsTableColumns == {"song_id", "title", "artist_id", "year", "duration"}

ArtistsTableColumns ==
    {"artist_id", "artist_name", "artist_location", "artist_latitude",
     "artist_longitude"}

\* SELECT song_id, MIN(title), MIN(artist_id), MIN(year), MIN(duration)
\* FROM songs GROUP BY song_id
SongsTable(songs) ==
    LET Group(k) == {i \in DOMAIN songs : songs[i].song_id = k}
    IN { [song_id   |-> k,
          title     |-> SqlMin({songs[i].title : i \in Group(k)}),
          artist_id |-> SqlMin({songs[i].artist_id : i \in Group(k)}),
          year      |-> SqlMin({songs[i].year : i \in Group(k)}),
          duration  |-> SqlMin({songs[i].duration : i \in Group(k)})]
         : k \in {songs[i].song_id : i \in DOMAIN songs} }

\* SELECT artist_id, MIN(artist_name), MIN(artist_location),
\* MIN(artist_latitude), MIN(artist_longitude) FROM songs GROUP BY artist_id
ArtistsTable(songs) ==
    LET Group(k) == {i \in DOMAIN songs : songs[i].artist_id = k}
    IN { [artist_id |-> k,
          name      |-> SqlMin({songs[i].artist_name : i \in Group(k)}),
          location  |-> SqlMin({songs[i].artist_location : i \in Group(k)}),
          latitude  |-> SqlMin({songs[i].artist_latitude : i \in Group(k)}),
          longitude |-> SqlMin({songs[i].artist_longitude : i \in Group(k)})]
         : k \in {songs[i].artist_id : i \in DOMAIN songs} }

\* ------------------------------------------------------------- log_data

\* The columns process_log_data reads before it writes anything: ts in the
\* withColumn, page in the where, the others in the select.
LogColumns ==
    {"ts", "page", "userId", "firstName", "lastName", "gender", "level",
     "song", "artist", "sessionId", "location", "userAgent"}

\* A timestamp is seconds since the epoch and the milliseconds within the
\* second (ts is a whole number of milliseconds, and the division keeps
\* them).
\* (F.col('ts') / 1000.0).cast(TimestampType())
StartTime(ts) ==
    IF ts = Null THEN Null
    ELSE Val([sec |-> Get(ts) \div 1000, ms |-> Get(ts) % 1000])

\* The order of two non-NULL timestamps.
TimeLess(a, b) == a.sec < b.sec \/ (a.sec = b.sec /\ a.ms < b.ms)

\* No filter on the page.
AnyPage(e) == TRUE

\* logs.page == 'NextSong'
IsNextSong(e) == SqlEq(e.page, Val("NextSong"))

\* logs.where(logs.page == 'NextSong').select(...)
NextSong(events) ==
    LET Keep(e) == IsNextSong(e)
        Project(e) ==
            [ts |-> e.ts, start_time |-> StartTime(e.ts), userId |-> e.userId,
             firstName |-> e.firstName, lastName |-> e.lastName,
             gender |-> e.gender, level |-> e.level, song |-> e.song,
             artist |-> e.artist, sessionId |-> e.sessionId,
             location |-> e.location, userAgent |-> e.userAgent]
        F[i \in 0..Len(events)] ==
            IF i = 0 THEN <<>>
            ELSE IF Keep(events[i]) THEN Append(F[i - 1], Project(events[i]))
                 ELSE F[i - 1]
    IN F[Len(events)]

\* CAST(userId AS int).  A character is a digit 0..9 or another character
\* (a number above 9).  A string of digits casts to its decimal value and
\* any other string, the empty one included, to NULL.  (Signs, blanks and
\* overflow are left out: UserIds holds no such string.)
CastInt(x) ==
    IF x = Null THEN Null
    ELSE LET str == Get(x)
             F[i \in 0..Len(str)] ==
                 IF i = 0 THEN 0 ELSE 10 * F[i - 1] + str[i]
         IN IF Len(str) > 0 /\ \A i \in DOMAIN str : str[i] \in 0..9
            THEN Val(F[Len(str)])
            ELSE Null

\* SELECT DISTINCT CAST(A.userId AS int), A.firstName, A.lastName, A.gender,
\* A.level FROM logs AS A INNER JOIN (SELECT userId, MAX(ts) AS tsLast FROM
\* logs GROUP BY userId) AS B ON A.userId = B.userId AND A.ts = B.tsLast
\* WHERE A.userId IS NOT NULL
UsersTable(logs) ==
    LET B == { [userId |-> u,
                tsLast |-> SqlMax({logs[i].ts :
                               i \in {j \in DOMAIN logs : logs[j].userId = u}})]
               : u \in {logs[i].userId : i \in DOMAIN logs} }
        Joined == { a \in Range(logs) :
                      /\ \E b \in B : /\ SqlEq(a.userId, b.userId)
                                      /\ SqlEq(a.ts, b.tsLast)
                      /\ a.userId # Null }
    IN { [user_id    |-> CastInt(a.userId),
          first_name |-> a.firstName,
          last_name  |-> a.lastName,
          gender     |-> a.gender,
          level      |-> a.level] : a \in Joined }

\* ------------------------------------------------------- calendar fields
\* The session time zone is UTC and the instants are not before the epoch.

EpochDay(t) == t.sec \div 86400

\* The day number of the civil date y-m-d (proleptic Gregorian calendar).
DaysFromCivil(y, m, d) ==
    LET yy  == IF m <= 2 THEN y - 1 ELSE y
        era == yy \div 400
        yoe == yy - era * 400
        mp  == IF m > 2 THEN m - 3 ELSE m + 9
        doy == (153 * mp + 2) \div 5 + d - 1
        doe == yoe * 365 + yoe \div 4 - yoe \div 100 + doy
    IN era * 146097 + doe - 719468

\* The civil date of a day number.
CivilFromDays(days) ==
    LET z   == days + 719468
        era == z \div 146097
        doe == z - era * 146097
        yoe == (doe - doe \div 1460 + doe \div 36524 - doe \div 146096) \div 365
        doy == doe - (365 * yoe + yoe \div 4 - yoe \div 100)
        mp  == (5 * doy + 2) \div 153
        d   == doy - (153 * mp + 2) \div 5 + 1
        m   == IF mp < 10 THEN mp + 3 ELSE mp - 9
        y   == yoe + era * 400
    IN [year |-> IF m <= 2 THEN y + 1 ELSE y, month |-> m, day |-> d]

\* F.hour
Hour(st) == IF st = Null THEN Null ELSE Val((Get(st).sec \div 3600) % 24)

\* F.dayofmonth
DayOfMonth(st) ==
    IF st = Null THEN Null ELSE Val(CivilFromDays(EpochDay(Get(st))).day)

\* F.month, MONTH(A.start_time)
Month(st) ==
    IF st = Null THEN Null ELSE Val(CivilFromDays(EpochDay(Get(st))).month)

\* F.year, YEAR(A.start_time)
Year(st) ==
    IF st = Null THEN Null ELSE Val(CivilFromDays(EpochDay(Get(st))).year)

\* F.dayofweek: 1 is Sunday, 7 is Saturday (the epoch was a Thursday).
DayOfWeek(st) ==
    IF st = Null THEN Null ELSE Val(((EpochDay(Get(st)) + 4) % 7) + 1)

\* The number of ISO weeks of year y.
WeeksInYear(y) ==
    LET P(n) == (n + n \div 4 - n \div 100 + n \div 400) % 7
    IN IF P(y) = 4 \/ P(y - 1) = 3 THEN 53 ELSE 52

\* F.weekofyear: the ISO 8601 week, which starts on Monday; week 1 is the
\* first week with more than three days in the year.
WeekOfYear(st) ==
    IF st = Null THEN Null
    ELSE LET days    == EpochDay(Get(st))
             y       == CivilFromDays(days).year
             ordinal == days - DaysFromCivil(y, 1, 1) + 1
             isoDay  == ((days + 3) % 7) + 1
             w       == (ordinal - isoDay + 10) \div 7
         IN Val(IF w < 1 THEN WeeksInYear(y - 1)
                ELSE IF w > WeeksInYear(y) THEN 1
                ELSE w)

\* logs.withColumn('hour', ...) ... .select('start_time', 'hour', 'day',
\* 'week', 'month', 'year', 'weekday'): one row for each row of logs.
TimeRows(logs) ==
    [i \in DOMAIN logs |->
        [start_time |-> logs[i].start_time,
         hour       |-> Hour(logs[i].start_time),
         day        |-> DayOfMonth(logs[i].start_time),
         week       |-> WeekOfYear(logs[i].start_time),
         month      |-> Month(logs[i].start_time),
         year       |-> Year(logs[i].start_time),
         weekday    |-> DayOfWeek(logs[i].start_time)]]

\* The rows without .dropDuplicates().
KeepDuplicates(rows) == rows

\* .dropDuplicates(): one row of each set of rows equal in every column
\* (two NULLs are equal here).
DropDuplicates(rows) ==
    LET F[i \in 0..Len(rows)] ==
            IF i = 0 THEN <<>>
            ELSE IF rows[i] \in Range(F[i - 1]) THEN F[i - 1]
                 ELSE Append(F[i - 1], rows[i])
    IN F[Len(rows)]

\* The time table, its rows in some order.
TimeTable(logs) == DropDuplicates(TimeRows(logs))

\* ------------------------------------------------------------ songplays

\* The join on the artist alone.
JoinOnArtist(a, b) == SqlEq(a.artist, b.artist_name)

\* ON A.song = B.title AND A.artist = B.artist_name
JoinOn(a, b) == SqlEq(a.song, b.title) /\ SqlEq(a.artist, b.artist_name)

\* FROM logs AS A INNER JOIN songs AS B ON ...: the pairs <<i, j>> of a row
\* of logs and a record of the songs view (the catalog as it was read, not
\* the songs table) that the join puts together.
JoinPairs(logs, songs) ==
    {p \in (DOMAIN logs) \X (DOMAIN songs) : JoinOn(logs[p[1]], songs[p[2]])}

\* Window.orderBy('start_time'): whether the joined row p must come before
\* the joined row q.  Ascending order puts NULL first.
SortsBefore(logs, p, q) ==
    LET sp == logs[p[1]].start_time
        sq == logs[q[1]].start_time
    IN \/ sp = Null /\ sq # Null
       \/ sp # Null /\ sq # Null /\ TimeLess(Get(sp), Get(sq))

\* The orders in which the window can hold the joined rows: every order
\* that is sorted by start_time.  Spark fixes no order among rows of equal
\* start_time; it depends on how the join's partitions reach the window.
RECURSIVE WindowOrders(_, _)
WindowOrders(logs, pairs) ==
    IF pairs = {} THEN {<<>>}
    ELSE UNION { {<<p>> \o rest : rest \in WindowOrders(logs, pairs \ {p})}
                 : p \in {p \in pairs :
                            \A q \in pairs : ~SortsBefore(logs, q, p)} }

\* F.rank().over(w): one more than the number of rows that sort before the
\* k-th.
Rank(logs, ord, k) ==
    1 + Cardinality({q \in DOMAIN ord : SortsBefore(logs, ord[q], ord[k])})

\* F.row_number().over(w): the number of the k-th row of the window.
RowNumber(logs, ord, k) == k

\* The songplays table for one order of the window.  The columns log and
\* song are not written: they record which row of logs and which catalog
\* record the row was joined from.
SongplaysTable(logs, songs, ord) ==
    { [start_time  |-> logs[ord[k][1]].start_time,
       user_id     |-> CastInt(logs[ord[k][1]].userId),
       level       |-> logs[ord[k][1]].level,
       song_id     |-> songs[ord[k][2]].song_id,
       artist_id   |-> songs[ord[k][2]].artist_id,
       session_id  |-> logs[ord[k][1]].sessionId,
       location    |-> logs[ord[k][1]].location,
       user_agent  |-> logs[ord[k][1]].userAgent,
       year        |-> Year(logs[ord[k][1]].start_time),
       month       |-> Month(logs[ord[k][1]].start_time),
       songplay_id |-> RowNumber(logs, ord, k),
       log         |-> ord[k][1],
       song        |-> ord[k][2]] : k \in DOMAIN ord }

\* The tables the job can write for these inputs.
SongplaysTables(logs, songs) ==
    {SongplaysTable(logs, songs, ord) :
        ord \in WindowOrders(logs, JoinPairs(logs, songs))}

\* The columns of a songplays row that are written.
Written(row) ==
    [c \in DOMAIN row \ {"log", "song"} |-> row[c]]

\* ---------------------------------------------------------------- inputs

Titles == {Null, Val(1), Val(2)}

\* The artist name and title of the sample play event.
Beyonce == Val(1)
Halo == Val(1)

\* userId strings: "7", "07", "x" (10 stands for a character that is no
\* digit), and no userId.
UserIds == {Null, Val(<<7>>), Val(<<0, 7>>), Val(<<10>>)}

\* ts values: none, 1 s, 1 s + 1 ms, and 1 day 1 h 1 min 1 s 1 ms.
Timestamps == {Null, Val(1000), Val(90061001)}

Song(id, title, artist, name, year, duration) ==
    [song_id |-> id, title |-> title, artist_id |-> artist,
     artist_name |-> name, artist_location |-> Null,
     artist_latitude |-> Null, artist_longitude |-> Null,
     year |-> year, duration |-> duration]

Event(ts, page, user, level, song, artist) ==
    [ts |-> ts, page |-> page, userId |-> user, firstName |-> Val(1),
     lastName |-> Val(1), gender |-> Val(1), level |-> level,
     song |-> song, artist |-> artist, sessionId |-> Val(1),
     location |-> Val(1), userAgent |-> Val(1)]

Levels == {Val("free"), Val("paid")}

\* Catalog records for the catalog tables.  The identifier, the title and
\* the artist vary freely.  The duration falls as the title rises and the
\* year as the artist rises, so that within a group the least title and the
\* least duration (the least artist and the least year) come from different
\* records; a record without title has no duration, one without artist no
\* year.  An artist has one name; artist 1 is the artist of the sample play.
DurationOf(title) ==
    IF title = Null THEN Null ELSE Val(400 - 100 * Get(title))

YearOf(artist) ==
    IF artist = Null THEN Null ELSE Val(2010 - Get(artist))

NameOf(artist) == artist

CatalogRecords ==
    {Song(id, t, a, NameOf(a), YearOf(a), DurationOf(t)) :
        id \in {Null, Val(1), Val(2)}, t \in Titles,
        a \in {Null, Val(1), Val(2)}}

\* The catalog of the sample: one song.
SampleSongs ==
    <<Song(Val(1), Halo, Val(1), Beyonce, Val(2008), Val(200))>>

\* Log records that are no plays: visits of the home page, later than every
\* play, by a user who also plays and by one who does not.
OtherRecords ==
    {Event(Val(180122002), Val("Home"), u, Val("paid"), Halo, Beyonce) :
        u \in {Val(<<7>>), Val(<<8>>)}}

\* Log records: the plays, whose time, user and level vary and which are all
\* of the sample song, and the records that are no plays.
LogRecords ==
    {Event(ts, Val("NextSong"), u, l, Halo, Beyonce) :
        ts \in Timestamps, u \in UserIds, l \in Levels}
    \cup OtherRecords

\* The log of the sample: one play of the sample song.
SampleEvents ==
    <<Event(Val(1000), Val("NextSong"), Val(<<7>>), Val("free"), Halo, Beyonce)>>

Tables == {"songs", "artists", "users", "time", "songplays"}

\* ----------------------------------------------------------------- state

VARIABLES
    songs,          \* the catalog records under song_data
    events,         \* the log records under log_data
    bad_column,     \* a column the input lacks (or has with a type the
                    \* queries reject), or "none"
    pc,             \* where main() is
    run,            \* 1 in the first run of main(), 2 in the second
    logs,           \* the temp view logs
    out,            \* the tables at the output location
    written,        \* the tables this run has written
    prev,           \* the tables as the run before left them
    same_input      \* whether this run reads what the run before read

vars ==
    <<songs, events, bad_column, pc, run, logs, out, written, prev, same_input>>

Empty ==
    [songs |-> {}, artists |-> {}, users |-> {}, time |-> <<>>,
     songplays |-> {}]

Start ==
    /\ pc = "songs"
    /\ run = 1
    /\ logs = <<>>
    /\ out = Empty
    /\ written = {}
    /\ prev = Empty
    /\ same_input = FALSE

\* A schema the queries reject stops the run whatever the records hold: it
\* is tried on the sample.
BadSchema ==
    /\ bad_column \in SongsTableColumns \cup ArtistsTableColumns \cup LogColumns
    /\ songs = SampleSongs
    /\ events = SampleEvents

\* The catalog varies, the log is the sample.
InitSong ==
    /\ \/ /\ bad_column = "none"
          /\ songs \in SeqsUpTo(CatalogRecords, MaxSongs)
          /\ events = SampleEvents
       \/ BadSchema
    /\ Start

\* The log varies, the catalog is the sample.
InitLog ==
    /\ \/ /\ bad_column = "none"
          /\ songs = SampleSongs
          /\ events \in SeqsUpTo(LogRecords, MaxEvents)
       \/ BadSchema
    /\ Start

\* As InitLog, with a ts in every record of the log.
InitTimedLog ==
    /\ \/ /\ bad_column = "none"
          /\ songs = SampleSongs
          /\ events \in SeqsUpTo({e \in LogRecords : e.ts # Null}, MaxEvents)
       \/ BadSchema
    /\ Start

\* ------------------------------------------------------------------ main

\* process_song_data up to the write of the songs table.  spark.sql raises
\* on a column the view lacks, and nothing has been written then.
ProcessSongs ==
    /\ pc = "songs"
    /\ \/ /\ bad_column \in SongsTableColumns
          /\ pc' = "aborted"
          /\ UNCHANGED <<out, written>>
       \/ /\ bad_column \notin SongsTableColumns
          /\ out' = [out EXCEPT !.songs = SongsTable(songs)]
          /\ written' = written \cup {"songs"}
          /\ pc' = "artists"
    /\ UNCHANGED <<songs, events, bad_column, run, logs, prev, same_input>>

\* The rest of process_song_data: the artists table and its write.
ProcessArtists ==
    /\ pc = "artists"
    /\ \/ /\ bad_column \in ArtistsTableColumns
          /\ pc' = "aborted"
          /\ UNCHANGED <<out, written>>
       \/ /\ bad_column \notin ArtistsTableColumns
          /\ out' = [out EXCEPT !.artists = ArtistsTable(songs)]
          /\ written' = written \cup {"artists"}
          /\ pc' = "logs"
    /\ UNCHANGED <<songs, events, bad_column, run, logs, prev, same_input>>

\* process_log_data up to the temp view logs: read, start_time, filter,
\* select.  Each of them raises on a column the log lacks.
ReadLogs ==
    /\ pc = "logs"
    /\ \/ /\ bad_column \in LogColumns
          /\ pc' = "aborted"
          /\ UNCHANGED logs
       \/ /\ bad_column \notin LogColumns
          /\ logs' = NextSong(events)
          /\ pc' = "users"
    /\ UNCHANGED <<songs, events, bad_column, run, out, written, prev, same_input>>

\* The users table and its write.
ProcessUsers ==
    /\ pc = "users"
    /\ out' = [out EXCEPT !.users = UsersTable(logs)]
    /\ written' = written \cup {"users"}
    /\ pc' = "time"
    /\ UNCHANGED <<songs, events, bad_column, run, logs, prev, same_input>>

\* The time table and its write.
ProcessTime ==
    /\ pc = "time"
    /\ out' = [out EXCEPT !.time = TimeTable(logs)]
    /\ written' = written \cup {"time"}
    /\ pc' = "songplays"
    /\ UNCHANGED <<songs, events, bad_column, run, logs, prev, same_input>>

\* The songplays table and its write; main() returns.
ProcessSongplays ==
    /\ pc = "songplays"
    /\ \E t \in SongplaysTables(logs, songs) :
          out' = [out EXCEPT !.songplays = t]
    /\ written' = written \cup {"songplays"}
    /\ pc' = "done"
    /\ UNCHANGED <<songs, events, bad_column, run, logs, prev, same_input>>

\* The log with the records that are no plays taken out, and the log with
\* one such record more.
OtherPagesChanged(evs) ==
    {SelectSeq(evs, IsNextSong)} \cup
    (IF Len(evs) < MaxEvents THEN {Append(evs, e) : e \in OtherRecords}
     ELSE {})

\* main() is run a second time on the same output location: on the same
\* input, or on a log that differs in records that are no plays.
Rerun ==
    /\ pc = "done"
    /\ run = 1
    /\ events' \in {events} \cup OtherPagesChanged(events)
    /\ same_input' = (events' = events)
    /\ prev' = out
    /\ run' = 2
    /\ pc' = "songs"
    /\ written' = {}
    /\ logs' = <<>>
    /\ UNCHANGED <<songs, bad_column, out>>

Next ==
    \/ ProcessSongs
    \/ ProcessArtists
    \/ ReadLogs
    \/ ProcessUsers
    \/ ProcessTime
    \/ ProcessSongplays
    \/ Rerun

SpecSong == InitSong /\ [][Next]_vars

SpecLog == InitLog /\ [][Next]_vars

SpecTimedLog == InitTimedLog /\ [][Next]_vars

\* ---------------------------------------------------------------- claims

\* The rows of the filtered log that are the plays of this run.
Plays == {e \in Range(events) : e.page = Val("NextSong")}

\* x is the least non-NULL value of col, or NULL when col holds none.
IsLeastOf(x, col) ==
    \/ x = Null /\ \A v \in col : v = Null
    \/ /\ x # Null
       /\ x \in col
       /\ \A v \in col : v # Null => Get(x) <= Get(v)

\* The songplays rows as they are written.
WrittenRows(t) == {Written(r) : r \in t}

\* C1: the songplay_id values of the songplays table are exactly 1..N for
\* its N rows, no two rows share one, and a row with an earlier start_time
\* has the smaller songplay_id.
C1_DenseOrderedKeys ==
    LET t == out.songplays
    IN /\ {r.songplay_id : r \in t} = 1..Cardinality(t)
       /\ \A a, b \in t : a # b => a.songplay_id # b.songplay_id
       /\ \A a, b \in t :
             (/\ a.start_time # Null
              /\ b.start_time # Null
              /\ TimeLess(Get(a.start_time), Get(b.start_time)))
             => a.songplay_id < b.songplay_id

\* C1's case: a finished run whose songplays table holds a row with an
\* earlier start_time than another's.
C1_Witness ==
    /\ pc = "done"
    /\ \E a, b \in out.songplays :
          /\ a.start_time # Null
          /\ b.start_time # Null
          /\ TimeLess(Get(a.start_time), Get(b.start_time))

C3_OneRowPerUser ==
    pc = "done" =>
        LET ids == {e.userId : e \in Plays} \ {Null}
            Last(u, e) ==
                /\ e.userId = u
                /\ e.ts # Null
                /\ \A f \in Plays :
                      (f.userId = u /\ f.ts # Null) => Get(f.ts) <= Get(e.ts)
        IN /\ \A r \in out.users : r.user_id # Null
           /\ \A r, q \in out.users : r.user_id = q.user_id => r = q
           /\ Cardinality(out.users) = Cardinality(ids)
           /\ \A u \in ids :
                 \E r \in out.users :
                    /\ r.user_id = CastInt(u)
                    /\ \A e \in Plays :
                          Last(u, e) =>
                              /\ r.first_name = e.firstName
                              /\ r.last_name = e.lastName
                              /\ r.gender = e.gender
                              /\ r.level = e.level

\* C4 as stated: a run that stops on a column it cannot read has written no
\* table, and a run that has ended has written all five tables or none.
C4_AbortWritesNothing ==
    /\ pc = "aborted" => written = {}
    /\ pc \in {"aborted", "done"} => written \in {{}, Tables}

\* C5 as stated: a second run on the same input leaves every table as the
\* first run wrote it, the songplay_id of every songplays row included.
C5_RerunIdentical ==
    (pc = "done" /\ run = 2 /\ same_input) =>
        /\ out.songs = prev.songs
        /\ out.artists = prev.artists
        /\ out.users = prev.users
        /\ out.time = prev.time
        /\ WrittenRows(out.songplays) = WrittenRows(prev.songplays)

\* C6: once the songs table is written it has a row for every song_id of
\* the catalog, and each row's title, artist_id, year and duration are each
\* the least non-NULL value of that column over the records of the row's
\* song_id, or NULL when every such record has NULL there.
C6_MinPerAttribute ==
    "songs" \in written =>
        /\ \A j \in DOMAIN songs :
              \E row \in out.songs : row.song_id = songs[j].song_id
        /\ \A row \in out.songs :
              LET G == {j \in DOMAIN songs : songs[j].song_id = row.song_id}
              IN /\ G # {}
                 /\ IsLeastOf(row.title, {songs[j].title : j \in G})
                 /\ IsLeastOf(row.artist_id, {songs[j].artist_id : j \in G})
                 /\ IsLeastOf(row.year, {songs[j].year : j \in G})
                 /\ IsLeastOf(row.duration, {songs[j].duration : j \in G})

\* C6's case: a songs row whose title comes from one record of its group
\* and whose duration from another, the group holding a record without
\* artist_id as well.
C6_Witness ==
    /\ pc = "done"
    /\ \E row \in out.songs :
          \E i, j \in DOMAIN songs :
             /\ songs[i].song_id = row.song_id
             /\ songs[j].song_id = row.song_id
             /\ row.title # Null
             /\ songs[i].title = row.title
             /\ songs[i].duration # row.duration
             /\ songs[j].duration = row.duration
             /\ songs[j].title # row.title
             /\ songs[i].artist_id = Null
             /\ row.artist_id # Null

\* C7 as stated: the songs table has exactly one row for each non-NULL
\* song_id of the catalog and no row with a NULL song_id, and the artists
\* table likewise for artist_id.
C7_OneRowPerNonNullId ==
    /\ "songs" \in written =>
          /\ \A r \in out.songs : r.song_id # Null
          /\ \A r, q \in out.songs : r.song_id = q.song_id => r = q
          /\ {r.song_id : r \in out.songs}
             = {songs[j].song_id : j \in DOMAIN songs} \ {Null}
    /\ "artists" \in written =>
          /\ \A r \in out.artists : r.artist_id # Null
          /\ \A r, q \in out.artists : r.artist_id = q.artist_id => r = q
          /\ {r.artist_id : r \in out.artists}
             = {songs[j].artist_id : j \in DOMAIN songs} \ {Null}

\* C8: once the time table is written no two of its rows have the same
\* start_time, and every start_time of the filtered log has a row.
C8_TimeRowsUnique ==
    "time" \in written =>
        /\ \A i, j \in DOMAIN out.time :
              out.time[i].start_time = out.time[j].start_time => i = j
        /\ \A k \in DOMAIN logs :
              \E i \in DOMAIN out.time :
                 out.time[i].start_time = logs[k].start_time

\* C8's case: the time table written from a log in which two plays share a
\* timestamp, with the one row they leave.
C8_Witness ==
    /\ "time" \in written
    /\ \E k, l \in DOMAIN logs :
          /\ k # l
          /\ logs[k].start_time # Null
          /\ logs[k].start_time = logs[l].start_time
    /\ Len(out.time) = 1

\* C9: every row of the users, time and songplays tables comes from a log
\* record whose page is NextSong; and a second run on a log that differs
\* from the first run's in records of other pages alone writes the same
\* users and time tables and can write the same songplays table.
C9_OnlyNextSong ==
    /\ "users" \in written =>
          \A r \in out.users :
             \E e \in Plays :
                /\ r.user_id = CastInt(e.userId)
                /\ r.first_name = e.firstName
                /\ r.last_name = e.lastName
                /\ r.gender = e.gender
                /\ r.level = e.level
    /\ "time" \in written =>
          \A i \in DOMAIN out.time :
             \E e \in Plays : out.time[i].start_time = StartTime(e.ts)
    /\ "songplays" \in written =>
          \A r \in out.songplays :
             \E e \in Plays :
                /\ r.start_time = StartTime(e.ts)
                /\ r.user_id = CastInt(e.userId)
                /\ r.level = e.level
                /\ r.session_id = e.sessionId
                /\ r.location = e.location
                /\ r.user_agent = e.userAgent
    /\ (pc = "done" /\ run = 2) =>
          /\ out.users = prev.users
          /\ out.time = prev.time
          /\ WrittenRows(prev.songplays)
             \in {WrittenRows(t) : t \in SongplaysTables(logs, songs)}

\* C9's case: a second run has finished on a log that differs from the
\* first run's in a record of another page, and the tables are not empty.
C9_Witness ==
    /\ pc = "done"
    /\ run = 2
    /\ ~same_input
    /\ Range(events) # Plays
    /\ out.users # {}
    /\ out.time # <<>>
    /\ out.songplays # {}

\* C10 as stated: every songplays row has its start_time in the time table,
\* its song_id, when not NULL, in the songs table, its artist_id, when not
\* NULL, in the artists table and its user_id, when not NULL, in the users
\* table.
C10_ReferentialIntegrity ==
    pc = "done" =>
        \A r \in out.songplays :
           /\ \E i \in DOMAIN out.time : out.time[i].start_time = r.start_time
           /\ r.song_id # Null => \E s \in out.songs : s.song_id = r.song_id
           /\ r.artist_id # Null =>
                 \E a \in out.artists : a.artist_id = r.artist_id
           /\ r.user_id # Null => \E u \in out.users : u.user_id = r.user_id

====
